---- MODULE Spec2Model ----
(***************************************************************************)
(* The chapter Reader of src/js/reader.js as a state machine.              *)
(*                                                                         *)
(* A state is one chapter page in one browser tab: the article's           *)
(* attributes and geometry as served, the navigation bars and the progress *)
(* elements of the DOM, the viewport, the local store, and the closure     *)
(* state of init() (chapterIndex, storageKey, ticking, the registered      *)
(* listeners).  The actions are the page-load handler init() and the       *)
(* event handlers it registers, each run to completion.                    *)
(*                                                                         *)
(* Strings that the code formats, parses or compares (storage values,      *)
(* storage keys, hrefs, attribute values, tag names) are TLA+ strings and  *)
(* the conversions are computed character by character.  Pixel geometry    *)
(* is integral; Math.round and Math.floor are computed exactly on          *)
(* rationals.                                                              *)
(***************************************************************************)
EXTENDS Integers, Sequences, FiniteSets, TLC

\* ------------------------------------------------------------------ bounds

MaxHeight == 3
MaxTop == 1
MaxWin == 2
MaxBelow == 1
MaxNumber == 3
MaxBurst == 2
MaxPending == 2
MaxReloads == 1
MaxTimers == 2

\* ------------------------------------------------------- values and strings

\* An optional value: <<>> is null / absent, <<x>> is x.
None == <<>>
Some(x) == <<x>>
IsSome(o) == o # <<>>
Get(o) == o[1]

Min(a, b) == IF a <= b THEN a ELSE b
Max(a, b) == IF a >= b THEN a ELSE b

CharAt(s, i) == SubSeq(s, i, i)
Digits == {"0", "1", "2", "3", "4", "5", "6", "7", "8", "9"}
IsDigit(c) == c \in Digits
DigitVal(c) == CHOOSE d \in 0..9 : ToString(d) = c
IsSpace(c) == c \in {" ", "\t", "\n"}

\* Whether sub occurs in s (String.prototype.includes, the CSS [href*=] match
\* and an unanchored RegExp test of a literal).
Contains(s, sub) ==
  \E i \in 1..(Len(s) - Len(sub) + 1) : SubSeq(s, i, i + Len(sub) - 1) = sub

\* A JavaScript number, as far as the Reader computes with one: a rational
\* num/den (den a power of ten), NaN, or +Infinity.
JsNum(n) == [kind |-> "fin", num |-> n, den |-> 1]
JsRat(n, d) == [kind |-> "fin", num |-> n, den |-> d]
JsNaN == [kind |-> "nan", num |-> 0, den |-> 1]
JsInf == [kind |-> "inf", num |-> 0, den |-> 1]

\* The number read so far: NaN when no digit was read.
scanned(neg, num, den, digits) ==
  IF digits = 0 THEN JsNaN ELSE JsRat(IF neg THEN 0 - num ELSE num, den)

\* The scanner of parseInt and parseFloat, at character i of s.  at is "lead"
\* (white space and a sign may still come), "int" or "frac"; point says
\* whether a decimal point is read (parseFloat) or ends the number (parseInt).
\* The scan stops at the first character that cannot continue the number.
\* (Exponents and the literal Infinity are not among the strings drawn.)
RECURSIVE scanNumber(_, _, _, _, _, _, _, _)
scanNumber(s, i, at, point, neg, num, den, digits) ==
  IF i > Len(s) THEN scanned(neg, num, den, digits)
  ELSE IF at = "lead" /\ IsSpace(CharAt(s, i))
  THEN scanNumber(s, i + 1, "lead", point, neg, num, den, digits)
  ELSE IF at = "lead" /\ CharAt(s, i) \in {"-", "+"}
  THEN scanNumber(s, i + 1, "int", point, CharAt(s, i) = "-", num, den, digits)
  ELSE IF at \in {"lead", "int"} /\ IsDigit(CharAt(s, i))
  THEN scanNumber(s, i + 1, "int", point, neg, 10 * num + DigitVal(CharAt(s, i)), den, digits + 1)
  ELSE IF at \in {"lead", "int"} /\ point /\ CharAt(s, i) = "."
  THEN scanNumber(s, i + 1, "frac", point, neg, num, den, digits)
  ELSE IF at = "frac" /\ IsDigit(CharAt(s, i))
  THEN scanNumber(s, i + 1, "frac", point, neg, 10 * num + DigitVal(CharAt(s, i)), 10 * den, digits + 1)
  ELSE scanned(neg, num, den, digits)

\* parseInt(s, 10) and parseFloat(s).
parseInt(s) == scanNumber(s, 1, "lead", FALSE, FALSE, 0, 1, 0)
parseFloat(s) == scanNumber(s, 1, "lead", TRUE, FALSE, 0, 1, 0)

\* Math.min / Math.max of two numbers: NaN if either is NaN.
MathMin(a, b) ==
  IF a.kind = "nan" \/ b.kind = "nan" THEN JsNaN
  ELSE IF a.kind = "inf" THEN b
  ELSE IF b.kind = "inf" THEN a
  ELSE IF a.num * b.den <= b.num * a.den THEN a ELSE b
MathMax(a, b) ==
  IF a.kind = "nan" \/ b.kind = "nan" THEN JsNaN
  ELSE IF a.kind = "inf" \/ b.kind = "inf" THEN JsInf
  ELSE IF a.num * b.den >= b.num * a.den THEN a ELSE b

\* Math.round((visible / height) * 100) for integers visible >= 0, height >= 0:
\* 0/0 is NaN, x/0 is Infinity, otherwise the nearest integer, a half going up.
\* (An exact half, where the double product can fall just short of it, needs a
\* height divisible by 8 and an overlap that is not among the geometries drawn.)
RoundedPercent(visible, height) ==
  IF height = 0
  THEN (IF visible = 0 THEN JsNaN ELSE JsInf)
  ELSE JsNum((200 * visible + height) \div (2 * height))

\* String(x) of an integer-valued number, NaN or Infinity (also x + '%' and
\* `${x}` in a template literal).
NumberToString(x) ==
  IF x.kind = "nan" THEN "NaN"
  ELSE IF x.kind = "inf" THEN "Infinity"
  ELSE ToString(x.num)

\* String(x / 100) for x an integer in 0..100, NaN or Infinity: the shortest
\* decimal, so 50 gives "0.5", 7 gives "0.07", 100 gives "1".
HundredthToString(x) ==
  IF x.kind = "nan" THEN "NaN"
  ELSE IF x.kind = "inf" THEN "Infinity"
  ELSE IF x.num % 100 = 0 THEN ToString(x.num \div 100)
  ELSE IF x.num % 10 = 0 THEN ToString(x.num \div 100) \o "." \o ToString((x.num % 100) \div 10)
  ELSE IF x.num % 100 < 10 THEN ToString(x.num \div 100) \o ".0" \o ToString(x.num % 100)
  ELSE ToString(x.num \div 100) \o "." \o ToString(x.num % 100)

\* ------------------------------------------------------------------- state

VARIABLES
  page,            \* the article as served: attributes and document geometry
  topNav,          \* the element .chapter-top-nav, if any
  bottomNav,       \* the element .chapter-nav, if any
  progressRoot,    \* whether .reading-progress exists
  bar,             \* .reading-progress__bar inside it: [el, text] (style.width)
  percent,         \* .reading-progress__percent inside it: [el, text] (textContent)
  windowH,         \* window.innerHeight
  scrollY,         \* the viewport's scroll offset
  store,           \* localStorage: a function from the keys present to strings
  storageMode,     \* "ok", "full" (writes throw) or "disabled" (reads and writes throw)
  pc,              \* "loading", "noop", "ready", "failed" or "left"
  chapterIndex,    \* init's chapterIndex: null or an integer
  storageKey,      \* init's storageKey
  ticking,         \* init's throttle flag
  rafPending,      \* animation-frame callbacks requested and not yet run
  listeners,       \* the event types init has registered a listener for
  api,             \* whether window.AshBonesReader is set
  location,        \* location.href
  uncaught,        \* whether an exception has escaped a handler
  fresh,           \* history: the display was recomputed after the last scroll or resize
  atLoad,          \* history: the store, this page's entry in it and the viewport height at load
  burst,           \* history: scroll/resize events delivered since the last frame
  frameBurst,      \* history: the value of burst when the last frame began (0 after an event)
  frameRecomputes, \* history: recomputations run by the last frame (0 after an event)
  scrollToCalls,   \* history: the arguments of window.scrollTo, in order
  toggleLog,       \* history: per bar, the toggle states before the last clicks
  session,         \* history: page loads so far, what init read, what was last written
  \* the table of contents page (act1-reader.js)
  tocPage,         \* the page as served: which elements exist, and the cards
  tocPc,           \* "absent", "loading", "noop", "ready" or "failed"
  hidden,          \* per card: its parent has display 'none'
  dataLast,        \* per card: it carries data-last
  progressValue,   \* progress.value
  countText,       \* countEl.textContent
  yearShown,       \* whether yearEl shows the year
  focusedIndex,    \* init's focusedIndex
  focusCard,       \* the card that has the focus, 0 when none has
  activeTag,       \* document.activeElement.tagName
  searchValue,     \* search.value
  timers,          \* pending timeouts of debounce: [val, left] (ms until due)
  tocListeners,    \* the listeners init has added
  tocApi,          \* whether window.AshBones is set
  quiet,           \* history: ms since the last input event, counted up to the wait
  runs,            \* history: filter runs since the last input event
  filterTerm,      \* history: the argument of the last filter run, if any
  lastClick,       \* history: the card clicked last and whether its handler returned
  arrowStable      \* history: no filter run, reload or blur since the last arrow key

\* The state of the table of contents page.
tocVars ==
  << tocPage, tocPc, hidden, dataLast, progressValue, countText, yearShown,
     focusedIndex, focusCard, activeTag, searchValue, timers, tocListeners,
     tocApi, quiet, runs, filterTerm, lastClick, arrowStable >>

\* The state of a chapter page, the store and the exceptions left aside.
readerVars ==
  << page, topNav, bottomNav, progressRoot, bar, percent, windowH, scrollY,
     pc, chapterIndex, storageKey, ticking, rafPending, listeners, api,
     location, fresh, atLoad, burst, frameBurst, frameRecomputes,
     scrollToCalls, toggleLog, session >>

vars ==
  << page, topNav, bottomNav, progressRoot, bar, percent, windowH, scrollY,
     store, storageMode, pc, chapterIndex, storageKey, ticking, rafPending,
     listeners, api, location, uncaught, fresh, atLoad, burst, frameBurst,
     frameRecomputes, scrollToCalls, toggleLog, session, tocVars >>

\* ------------------------------------------------------ navigation targets

TocHref == "../line1-patreonreader.html"
TocMarker == "line1-patreonreader.html"
SelfHref == "<this page>"

\* number is null or an integer; null > 1 is false and 0 and null are falsy.
buildNavLinks_prevSelf(number) ==
  [ prevNum |-> IF IsSome(number) /\ Get(number) > 1 THEN Some(Get(number)) ELSE None,
    nextNum |-> IF IsSome(number) /\ Get(number) # 0 THEN Some(Get(number) + 1) ELSE None ]
buildNavLinks(number) ==
  [ prevNum |-> IF IsSome(number) /\ Get(number) > 1 THEN Some(Get(number) - 1) ELSE None,
    nextNum |-> IF IsSome(number) /\ Get(number) # 0 THEN Some(Get(number) + 1) ELSE None ]

pathForIndex(num) ==
  IF ~IsSome(num) \/ Get(num) = 0 THEN TocHref
  ELSE IF Get(num) = 1 THEN "patreonchapter-1.html"
  ELSE "patreonchapter-" \o ToString(Get(num)) \o ".html"

\* An anchor: its href, its text and its data-role ("" when it has none).
Anchor(href, text, role) == [href |-> href, text |-> text, role |-> role]

\* The three anchors injectNav builds from prevNum and nextNum.
navAnchors(prevNum, nextNum) ==
  << IF IsSome(prevNum) /\ Get(prevNum) > 0
     THEN Anchor(pathForIndex(prevNum), "Previous", "prev")
     ELSE Anchor(TocHref, "Table of Contents", ""),
     Anchor(TocHref, "Table of Contents", ""),
     IF IsSome(nextNum) /\ Get(nextNum) # 0
     THEN Anchor(pathForIndex(nextNum), "Next", "next")
     ELSE Anchor(TocHref, "End of Act", "") >>

\* The anchors injectNav puts in a bar for chapterIndex idx.
injectedLinks(idx) ==
  navAnchors(buildNavLinks(idx).prevNum, buildNavLinks(idx).nextNum)

\* A navigation bar: its anchors in document order, its toggle button (with
\* the aria-expanded attribute, null when absent), its links box, and the
\* classes is-open (on the bar), is-expanded (on the box), is-visible.
Nav(links, hasToggle, aria, hasBox, isOpen, isExpanded) ==
  [ links |-> links, hasToggle |-> hasToggle, aria |-> aria, hasBox |-> hasBox,
    isOpen |-> isOpen, isExpanded |-> isExpanded, isVisible |-> FALSE,
    wired |-> FALSE, injected |-> FALSE ]

injectNav(idx) ==
  [ Nav(injectedLinks(idx), FALSE, None, FALSE, FALSE, FALSE) EXCEPT !.injected = TRUE ]

\* ---------------------------------------------------------- chapter identity

\* article.dataset.number ? parseInt(article.dataset.number, 10) : NaN
dataNumberOf(p) ==
  IF IsSome(p.dataNumber) /\ Get(p.dataNumber) # ""
  THEN parseInt(Get(p.dataNumber)) ELSE JsNaN

isPrologue(p) == p.dataType = Some("prologue") \/ p.id = "prologue"

\* !isNaN(dataNumber) ? dataNumber : (isPrologue ? 0 : null)
chapterIndexFrom(dataNumber, prologue) ==
  IF dataNumber.kind # "nan" THEN Some(dataNumber.num)
  ELSE IF prologue THEN Some(0) ELSE None

\* init's chapterIndex, from data-number, data-type and id.
chapterIndexOf(p) == chapterIndexFrom(dataNumberOf(p), isPrologue(p))

\* `ashbones:act1:chapter:${chapterIndex === 0 ? 'prologue' : (chapterIndex || article.id)}:scroll`
storageKeyFor(idx, id) ==
  "ashbones:act1:chapter:"
    \o (IF idx = Some(0) THEN "prologue"
        ELSE IF IsSome(idx) THEN ToString(Get(idx)) ELSE id)
    \o ":scroll"

\* init's storageKey for the page p.
storageKeyOf(p) == storageKeyFor(chapterIndexOf(p), p.id)

\* ------------------------------------------------------------------ storage

getItem(st, key) == IF key \in DOMAIN st THEN Some(st[key]) ELSE None
setItem(st, key, val) ==
  [k \in DOMAIN st \cup {key} |-> IF k = key THEN val ELSE st[k]]

\* try { localStorage.setItem(key, val) } catch (e) {}
\* (wrote is the value the store took, null when it took none.)
writeProgress_unguarded(st, key, val) ==
  IF storageMode = "ok"
  THEN [store |-> setItem(st, key, val), threw |-> FALSE, wrote |-> Some(val)]
  ELSE [store |-> st, threw |-> TRUE, wrote |-> None]
writeProgress(st, key, val) ==
  IF storageMode = "ok"
  THEN [store |-> setItem(st, key, val), threw |-> FALSE, wrote |-> Some(val)]
  ELSE [store |-> st, threw |-> FALSE, wrote |-> None]

\* ----------------------------------------------------------------- geometry

scrollHeightFor(h) == Max(page.contentH, h)
maxScrollFor(h) == scrollHeightFor(h) - h

\* The offset the restore block scrolls to for the parsed value val, or null.
restoreOffset_noUpper(val) ==
  IF val.kind = "fin" /\ val.num > 0
  THEN Some((maxScrollFor(windowH) * val.num) \div val.den)
  ELSE None
restoreOffset(val) ==
  IF val.kind = "fin" /\ val.num > 0 /\ val.num < val.den
  THEN Some((maxScrollFor(windowH) * val.num) \div val.den)
  ELSE None

\* if (saved) { const val = parseFloat(saved); ... }
restoreSaved(saved) ==
  IF ~IsSome(saved) \/ Get(saved) = "" THEN None
  ELSE restoreOffset(parseFloat(Get(saved)))

\* The restore block of init: the offset to scroll to, or null.  A store
\* that throws on reading leaves the catch block with nothing done.
restoreTarget(st, key) ==
  IF storageMode = "disabled" THEN None ELSE restoreSaved(getItem(st, key))

\* What localStorage.getItem(storageKey) gave the restore block: null when
\* there is no entry or the store threw.
restoreRead(st, key) ==
  IF storageMode = "disabled" THEN None ELSE getItem(st, key)

\* window.scrollTo(0, y): the offset is clamped to the scrollable range.
scrollTo(y, h) == Max(0, Min(y, maxScrollFor(h)))

\* The height of the article inside a viewport of height h scrolled to y.
visibleHeight(y, h) ==
  LET top == page.artTop - y
      bottom == top + page.artHeight
  IN  Max(0, Min(bottom, h) - Max(top, 0))

\* Math.max(0, Math.min(100, Math.round((visible / rect.height) * 100)))
clampedPercent_floor(y, h) ==
  MathMax(JsNum(0), MathMin(JsNum(100),
    IF page.artHeight = 0 THEN JsNaN
    ELSE JsNum((100 * visibleHeight(y, h)) \div page.artHeight)))
clampedPercent(y, h) ==
  MathMax(JsNum(0), MathMin(JsNum(100), RoundedPercent(visibleHeight(y, h), page.artHeight)))

\* The assignments of updateProgress() to the bar b and the label p, given
\* the text to show and the outcome w of the write: a missing bar or label
\* is null, and setting a property of null throws.
showProgress(b, p, st, text, w) ==
  IF ~b.el THEN [bar |-> b, percent |-> p, store |-> st, threw |-> TRUE, wrote |-> None]
  ELSE IF ~p.el
  THEN [ bar |-> [b EXCEPT !.text = text], percent |-> p, store |-> st,
         threw |-> TRUE, wrote |-> None ]
  ELSE [ bar |-> [b EXCEPT !.text = text], percent |-> [p EXCEPT !.text = text],
         store |-> w.store, threw |-> w.threw, wrote |-> w.wrote ]

\* updateProgress() once clamped is computed: the bar and the label get
\* clamped + '%' and the store gets String(clamped / 100).
progressOf(b, p, key, st, clamped) ==
  showProgress(b, p, st, NumberToString(clamped) \o "%",
               writeProgress(st, key, HundredthToString(clamped)))

\* updateProgress() with the bar b, the label p, the viewport at y, the
\* storage key and the store st: the new bar width, label text and store,
\* and whether it threw.
updateProgress(b, p, y, key, st) ==
  progressOf(b, p, key, st, clampedPercent(y, windowH))


\* ------------------------------------------------------------------ handlers

\* The progress elements init creates when .reading-progress is absent.
synthBar == [el |-> TRUE, text |-> ""]
synthPercent == [el |-> TRUE, text |-> "0%"]

\* The forEach over the bars: is-visible, and a click listener on the toggle
\* when the bar has both a toggle and a links box.
wireNav(nav) ==
  IF IsSome(nav)
  THEN Some([Get(nav) EXCEPT !.isVisible = TRUE,
                             !.wired = Get(nav).hasToggle /\ Get(nav).hasBox])
  ELSE None

\* The end of init(): the listeners, the initial updateProgress() with
\* outcome r, and, unless it threw, the keydown listener and the accessor.
initFinish(r) ==
  /\ bar' = r.bar
  /\ percent' = r.percent
  /\ store' = r.store
  /\ uncaught' = r.threw
  /\ listeners' = IF r.threw THEN {"scroll", "resize"}
                  ELSE {"scroll", "resize", "keydown"}
  /\ api' = ~r.threw
  /\ fresh' = ~r.threw
  /\ pc' = IF r.threw THEN "failed" ELSE "ready"

\* init() from the restore block on: target is the offset to restore, or
\* null.  The store is read before the initial updateProgress() writes it.
initRestore_updateFirst(b0, p0, key, target) ==
  /\ scrollToCalls' =
       IF IsSome(restoreTarget(updateProgress(b0, p0, scrollY, key, store).store, key))
       THEN Append(scrollToCalls,
                   Get(restoreTarget(updateProgress(b0, p0, scrollY, key, store).store, key)))
       ELSE scrollToCalls
  /\ scrollY' =
       IF IsSome(restoreTarget(updateProgress(b0, p0, scrollY, key, store).store, key))
       THEN scrollTo(Get(restoreTarget(updateProgress(b0, p0, scrollY, key, store).store, key)),
                     windowH)
       ELSE scrollY
  /\ initFinish(updateProgress(b0, p0, scrollY, key, store))
  /\ session' =
       [session EXCEPT
          !.read = restoreRead(updateProgress(b0, p0, scrollY, key, store).store, key),
          !.wrote = updateProgress(b0, p0, scrollY, key, store).wrote]
initRestore(b0, p0, key, target) ==
  /\ scrollToCalls' = IF IsSome(target) THEN Append(scrollToCalls, Get(target))
                      ELSE scrollToCalls
  /\ scrollY' = IF IsSome(target) THEN scrollTo(Get(target), windowH) ELSE scrollY
  /\ initFinish(updateProgress(b0, p0, scrollY', key, store))
  /\ session' = [session EXCEPT !.read = restoreRead(store, key),
                                !.wrote = updateProgress(b0, p0, scrollY', key, store).wrote]

\* init() from the injection of the bars on, for a chapter page.
initChapter(b0, p0, idx, key, inject) ==
  /\ progressRoot' = TRUE
  /\ chapterIndex' = idx
  /\ storageKey' = key
  /\ topNav' = wireNav(IF inject THEN Some(injectNav(idx)) ELSE topNav)
  /\ bottomNav' = wireNav(IF inject /\ ~IsSome(bottomNav) THEN Some(injectNav(idx))
                          ELSE bottomNav)
  /\ initRestore(b0, p0, key, restoreTarget(store, key))

\* Whether init injects the bars: not on a comments page, and only when
\* the page has no .chapter-top-nav.
injectGate_anyPage(dataType, top) == ~IsSome(top)
injectGate(dataType, top) == dataType # Some("comments") /\ ~IsSome(top)

\* init(): the page-load handler.
init ==
  /\ pc = "loading"
  /\ IF ~page.article
     THEN /\ pc' = "noop"
          /\ UNCHANGED << fresh, topNav, bottomNav, progressRoot, bar, percent,
                          scrollY, store, chapterIndex, storageKey, listeners,
                          api, uncaught, scrollToCalls, session >>
     ELSE initChapter(IF progressRoot THEN bar ELSE synthBar,
                      IF progressRoot THEN percent ELSE synthPercent,
                      chapterIndexOf(page), storageKeyOf(page),
                      injectGate(page.dataType, topNav))
  /\ UNCHANGED << page, windowH, storageMode, ticking, rafPending, location,
                  atLoad, burst, frameBurst, frameRecomputes, toggleLog, tocVars >>

\* onScroll(): request one animation frame unless one is already requested.
onScroll_unthrottled ==
  [ticking |-> TRUE, rafPending |-> rafPending + 1]
onScroll ==
  IF ~ticking
  THEN [ticking |-> TRUE, rafPending |-> rafPending + 1]
  ELSE [ticking |-> ticking, rafPending |-> rafPending]

PageLive == pc \in {"ready", "failed"}

\* What an event of type ev does to the throttle.
Deliver(ev) ==
  IF ev \in listeners
  THEN /\ onScroll.rafPending <= MaxPending
       /\ ticking' = onScroll.ticking
       /\ rafPending' = onScroll.rafPending
       /\ burst' = Min(burst + 1, MaxBurst)
       /\ frameBurst' = 0
       /\ frameRecomputes' = 0
  ELSE UNCHANGED << ticking, rafPending, burst, frameBurst, frameRecomputes >>

\* The offsets a scroll may move the viewport of height h to.
ScrollOffsets == (0..(MaxTop + MaxHeight + MaxBelow)) \cup {750, 1500}
ScrollTargets(h) == { y \in ScrollOffsets : y <= maxScrollFor(h) }

\* The viewport heights a resize may produce.
WindowHeights == 1..MaxWin

\* The user scrolls to y: a scroll event.
Scroll(y) ==
  /\ PageLive
  /\ y \in ScrollTargets(windowH)
  /\ y # scrollY
  /\ scrollY' = y
  /\ Deliver("scroll")
  /\ fresh' = FALSE
  /\ UNCHANGED << page, topNav, bottomNav, progressRoot, bar, percent, windowH,
                  store, storageMode, pc, chapterIndex, storageKey, listeners,
                  api, location, uncaught, atLoad, scrollToCalls,
                  toggleLog, session, tocVars >>

\* The window is resized to height h: a resize event.
Resize(h) ==
  /\ PageLive
  /\ h \in WindowHeights
  /\ h # windowH
  /\ windowH' = h
  /\ scrollY' = Min(scrollY, maxScrollFor(h))
  /\ Deliver("resize")
  /\ fresh' = FALSE
  /\ UNCHANGED << page, topNav, bottomNav, progressRoot, bar, percent,
                  store, storageMode, pc, chapterIndex, storageKey, listeners,
                  api, location, uncaught, atLoad, scrollToCalls,
                  toggleLog, session, tocVars >>

\* The value a recomputation with outcome r leaves as the last one written.
lastWrote(r) == IF IsSome(r.wrote) THEN r.wrote ELSE session.wrote

\* The animation-frame callback: updateProgress() with outcome r, then
\* ticking = false; when updateProgress() throws, ticking stays as it was.
frameCallback(r) ==
  /\ bar' = r.bar
  /\ percent' = r.percent
  /\ store' = r.store
  /\ uncaught' = (uncaught \/ r.threw)
  /\ ticking' = IF r.threw THEN ticking ELSE FALSE
  /\ fresh' = ~r.threw
  /\ session' = [session EXCEPT !.wrote = lastWrote(r)]

\* An animation frame: the requested callbacks run.
Frame ==
  /\ PageLive
  /\ IF rafPending > 0
     THEN frameCallback(updateProgress(bar, percent, scrollY, storageKey, store))
     ELSE UNCHANGED << bar, percent, store, uncaught, ticking, fresh, session >>
  /\ frameRecomputes' = rafPending
  /\ rafPending' = 0
  /\ frameBurst' = burst
  /\ burst' = 0
  /\ UNCHANGED << page, topNav, bottomNav, progressRoot, windowH, scrollY,
                  storageMode, pc, chapterIndex, storageKey, listeners, api,
                  location, atLoad, scrollToCalls, toggleLog, tocVars >>

\* The anchors inside .chapter-top-nav and .chapter-nav, in document order.
navLinks ==
  (IF IsSome(topNav) THEN Get(topNav).links ELSE << >>)
    \o (IF IsSome(bottomNav) THEN Get(bottomNav).links ELSE << >>)

\* querySelector: the href of the first of the anchors at the positions
\* hits, or null when there is none.
firstHref(hits) ==
  IF hits = {} THEN None
  ELSE Some(navLinks[CHOOSE i \in hits : \A j \in hits : i <= j].href)

\* a[data-role="next"], a[data-role="prev"], a[href*="line1-patreonreader.html"]
nextLinks == { i \in 1..Len(navLinks) : navLinks[i].role = "next" }
prevLinks == { i \in 1..Len(navLinks) : navLinks[i].role = "prev" }
tocLinks == { i \in 1..Len(navLinks) : Contains(navLinks[i].href, TocMarker) }

\* /input|textarea|select/i.test(tagName)
isFormTag(tag) ==
  \E w \in {"INPUT", "TEXTAREA", "SELECT", "input", "textarea", "select"} :
    Contains(tag, w)

\* The keydown listener: the href it assigns to location.href, or null.
keyTarget_nextOrToc(key, tag) ==
  IF isFormTag(tag) THEN None
  ELSE IF key = "n" THEN firstHref(IF nextLinks # {} THEN nextLinks ELSE tocLinks)
  ELSE IF key = "p" THEN firstHref(prevLinks)
  ELSE IF key = "t" THEN firstHref(tocLinks)
  ELSE None
keyTarget(key, tag) ==
  IF isFormTag(tag) THEN None
  ELSE IF key = "n" THEN firstHref(nextLinks)
  ELSE IF key = "p" THEN firstHref(prevLinks)
  ELSE IF key = "t" THEN firstHref(tocLinks)
  ELSE None

Keys == {"n", "p", "t", "N"}
Tags == {"BODY", "INPUT", "TEXTAREA", "SELECT"}

\* The keydown listener's effect for the href it found, or null.
keyNavigate(target) ==
  IF IsSome(target)
  THEN /\ location' = Get(target)
       /\ pc' = "left"
  ELSE UNCHANGED << location, pc >>

\* A key is pressed with focus on an element with tag name tag.
KeyDown(key, tag) ==
  /\ PageLive
  /\ key \in Keys
  /\ tag \in Tags
  /\ IF "keydown" \in listeners
     THEN keyNavigate(keyTarget(key, tag))
     ELSE UNCHANGED << location, pc >>
  /\ UNCHANGED << page, topNav, bottomNav, progressRoot, bar, percent, windowH,
                  scrollY, store, storageMode, chapterIndex, storageKey, ticking,
                  rafPending, listeners, api, uncaught, fresh, atLoad, burst,
                  frameBurst, frameRecomputes, scrollToCalls, toggleLog,
                  session, tocVars >>

\* The click listener of a bar's toggle.
toggleClick_addOnly(nav) ==
  [nav EXCEPT !.aria = Some(IF nav.aria = Some("true") THEN "false" ELSE "true"),
              !.isOpen = TRUE,
              !.isExpanded = (nav.aria # Some("true"))]
toggleClick(nav) ==
  [nav EXCEPT !.aria = Some(IF nav.aria = Some("true") THEN "false" ELSE "true"),
              !.isOpen = (nav.aria # Some("true")),
              !.isExpanded = (nav.aria # Some("true"))]

\* What a toggle shows: aria-expanded and the two classes.
toggleState(nav) == << nav.aria, nav.isOpen, nav.isExpanded >>

\* The last two entries of a log.
lastTwo(log) == IF Len(log) > 2 THEN SubSeq(log, Len(log) - 1, Len(log)) ELSE log

\* The bar called which.
navAt(which) == IF which = "top" THEN topNav ELSE bottomNav

\* The toggle of the top or bottom bar is activated.
ToggleClick(which) ==
  /\ PageLive
  /\ which \in {"top", "bottom"}
  /\ IsSome(navAt(which))
  /\ Get(navAt(which)).wired
  /\ topNav' = IF which = "top" THEN Some(toggleClick(Get(topNav))) ELSE topNav
  /\ bottomNav' = IF which = "bottom" THEN Some(toggleClick(Get(bottomNav))) ELSE bottomNav
  /\ toggleLog' = [toggleLog EXCEPT
                     ![which] = lastTwo(Append(@, toggleState(Get(navAt(which)))))]
  /\ UNCHANGED << page, progressRoot, bar, percent, windowH, scrollY, store,
                  storageMode, pc, chapterIndex, storageKey, ticking, rafPending,
                  listeners, api, location, uncaught, fresh, atLoad, burst,
                  frameBurst, frameRecomputes, scrollToCalls, session, tocVars >>

\* ------------------------------------------------------------- pages served

\* A chapter page with ordinal 2 and nothing else marked up.
BasePage ==
  [ article |-> TRUE, dataNumber |-> Some("2"), dataType |-> None, id |-> "chapter-two",
    artTop |-> 1, artHeight |-> 2, contentH |-> 4 ]

EmptyStore == [k \in {} |-> ""]
OtherKey == "ashbones:act1:chapter:7:scroll"
OtherValue == "0.3"

\* A store holding another chapter's progress and, when saved is not null,
\* saved under the key of page p.
StoreWith(p, saved) ==
  IF IsSome(saved)
  THEN setItem(setItem(EmptyStore, OtherKey, OtherValue), storageKeyOf(p), Get(saved))
  ELSE setItem(EmptyStore, OtherKey, OtherValue)

\* Values found in the store: what updateProgress writes, and malformed ones.
SavedValues ==
  { None, Some(""), Some("0"), Some("1"), Some("0.5"), Some("0.25"), Some("0.07"),
    Some("0.99"), Some("NaN"), Some("abc"), Some("1.5"), Some("-0.5"), Some("0.5px") }

StorageModes == {"ok", "full", "disabled"}

\* The anchors of a bar written by hand, with the roles given; mark tells the
\* top bar's targets from the bottom bar's.
CustomLinks(roles, mark) ==
  (IF "prev" \in roles THEN << Anchor("patreonchapter-1.html" \o mark, "Previous", "prev") >> ELSE << >>)
    \o << Anchor("about.html" \o mark, "About", "") >>
    \o (IF "toc" \in roles THEN << Anchor(TocHref \o mark, "Contents", "") >> ELSE << >>)
    \o (IF "next" \in roles THEN << Anchor("patreonchapter-3.html" \o mark, "Next", "next") >> ELSE << >>)

PlainNavs(mark) ==
  { Some(Nav(CustomLinks(roles, mark), FALSE, None, FALSE, FALSE, FALSE)) :
      roles \in SUBSET {"prev", "toc", "next"} }

AriaValues == { None, Some("true"), Some("false") }

ToggleNavs(mark) ==
  { Some(Nav(CustomLinks({"prev", "toc", "next"}, mark), TRUE, aria, TRUE, open, expanded)) :
      aria \in AriaValues, open \in BOOLEAN, expanded \in BOOLEAN }
  \cup { Some(Nav(CustomLinks({"toc"}, mark), TRUE, Some("false"), FALSE, FALSE, FALSE)) }

DataNumbers ==
  { None, Some(""), Some("-1"), Some("abc"), Some("2nd"), Some(" 3") }
  \cup { Some(ToString(n)) : n \in 0..MaxNumber }
DataTypes == { None, Some("prologue"), Some("comments") }
ArticleIds == { "", "prologue", "intro", "2" }

\* The progress elements a page serves: the container, and the bar and the
\* label inside it.
ProgressUI(root, barEl, percentEl) ==
  [ root |-> root,
    bar |-> [el |-> root /\ barEl, text |-> ""],
    percent |-> [el |-> root /\ percentEl, text |-> IF root /\ percentEl THEN "0%" ELSE ""] ]

\* The table of contents page is not the page loaded.
TocIdle ==
  /\ tocPage = [search |-> FALSE, grid |-> FALSE, countEl |-> FALSE, progress |-> FALSE,
                clearBtn |-> FALSE, yearEl |-> FALSE, cards |-> << >>]
  /\ tocPc = "absent"
  /\ hidden = << >>
  /\ dataLast = << >>
  /\ progressValue = 0
  /\ countText = ""
  /\ yearShown = FALSE
  /\ focusedIndex = -1
  /\ focusCard = 0
  /\ activeTag = "BODY"
  /\ searchValue = ""
  /\ timers = {}
  /\ tocListeners = {}
  /\ tocApi = FALSE
  /\ quiet = 0
  /\ runs = 0
  /\ filterTerm = None
  /\ lastClick = [card |-> 0, returned |-> FALSE]
  /\ arrowStable = FALSE

\* The state when the script starts on page p, served with the bars top and
\* bottom and the progress elements ui.
Serve(p, top, bottom, ui, h, st, mode) ==
  /\ page = p
  /\ topNav = top
  /\ bottomNav = bottom
  /\ progressRoot = ui.root
  /\ bar = ui.bar
  /\ percent = ui.percent
  /\ windowH = h
  /\ scrollY = 0
  /\ store = st
  /\ storageMode = mode
  /\ pc = "loading"
  /\ chapterIndex = None
  /\ storageKey = ""
  /\ ticking = FALSE
  /\ rafPending = 0
  /\ listeners = {}
  /\ api = FALSE
  /\ location = SelfHref
  /\ uncaught = FALSE
  /\ fresh = FALSE
  /\ atLoad = [ saved |-> getItem(st, storageKeyOf(p)), store |-> st, windowH |-> h,
                top |-> top, bottom |-> bottom, ui |-> ui ]
  /\ burst = 0
  /\ frameBurst = 0
  /\ frameRecomputes = 0
  /\ scrollToCalls = << >>
  /\ toggleLog = [w \in {"top", "bottom"} |-> << >>]
  /\ session = [loads |-> 1, read |-> None, wrote |-> None, before |-> None]
  /\ TocIdle

\* The state when the script starts on page p: root says whether the page
\* serves its own progress triplet.
Load(p, top, bottom, root, h, st, mode) ==
  Serve(p, top, bottom, ProgressUI(root, root, root), h, st, mode)

\* A page too short to scroll: the article fills the document.
ShortPage == [BasePage EXCEPT !.artTop = 0, !.artHeight = 1, !.contentH = 1]

\* Every article geometry.
InitGeometry ==
  \E t \in 0..MaxTop, a \in 0..MaxHeight, b \in 0..MaxBelow, h \in 1..MaxWin :
    LET p == [BasePage EXCEPT !.artTop = t, !.artHeight = a, !.contentH = t + a + b]
    IN  Load(p, None, None, FALSE, h, StoreWith(p, None), "ok")

\* The spec's scenarios: a region of 1000px in a document of 2000px, viewport 500px.
InitScenario ==
  \E saved \in { None, Some("0.5"), Some("0.07") } :
    LET p == [BasePage EXCEPT !.artTop = 0, !.artHeight = 1000, !.contentH = 2000]
    IN  Load(p, None, None, FALSE, 500, StoreWith(p, saved), "ok")

\* Every stored value, and every storage failure.
InitStorage ==
  \E saved \in SavedValues, mode \in StorageModes, h \in 1..MaxWin :
    /\ mode = "ok" \/ saved \in { None, Some("0.5") }
    /\ LET p == [BasePage EXCEPT !.artTop = 0, !.artHeight = MaxHeight, !.contentH = MaxHeight]
       IN  Load(p, None, None, FALSE, h, StoreWith(p, saved), mode)

\* A page that serves its own progress triplet.
InitProgressUI ==
  \E mode \in StorageModes :
    Load(ShortPage, None, None, TRUE, 1, StoreWith(ShortPage, None), mode)

\* Every chapter identity, on a page without navigation of its own.
InitIdentity ==
  \E n \in DataNumbers, ty \in DataTypes, id \in ArticleIds :
    LET p == [ShortPage EXCEPT !.dataNumber = n, !.dataType = ty, !.id = id]
    IN  Load(p, None, None, FALSE, 1, StoreWith(p, None), "ok")

\* Pages with navigation bars of their own.
InitNavLinks ==
  \E top \in PlainNavs("#top") \cup {None}, bottom \in PlainNavs("#bottom") \cup {None},
     ty \in { None, Some("comments") } :
    LET p == [ShortPage EXCEPT !.dataType = ty]
    IN  Load(p, top, bottom, FALSE, 1, StoreWith(p, None), "ok")

\* Pages whose bars have a toggle.
InitToggles ==
  \E top \in ToggleNavs("#top"), bottom \in ToggleNavs("#bottom") \cup {None} :
    /\ bottom = None \/ top = Some(Nav(CustomLinks({"toc"}, "#top"), TRUE, Some("false"), FALSE, FALSE, FALSE))
    /\ Load(ShortPage, top, bottom, FALSE, 1, StoreWith(ShortPage, None), "ok")

\* A page that is not a chapter page.
InitNoArticle ==
  Load([ShortPage EXCEPT !.article = FALSE], None, None, FALSE, 1,
       StoreWith(ShortPage, None), "ok")

Init ==
  \/ InitGeometry
  \/ InitScenario
  \/ InitStorage
  \/ InitProgressUI
  \/ InitIdentity
  \/ InitNavLinks
  \/ InitToggles
  \/ InitNoArticle

Next ==
  \/ init
  \/ \E y \in ScrollOffsets : Scroll(y)
  \/ \E h \in WindowHeights : Resize(h)
  \/ Frame
  \/ \E key \in Keys, tag \in Tags : KeyDown(key, tag)
  \/ \E which \in {"top", "bottom"} : ToggleClick(which)

Spec == Init /\ [][Next]_vars

\* ------------------------------------------------- pages with any markup

\* Pages that serve any part of the progress elements: the container or
\* not, and inside it the bar and the label or not.  (The track is never
\* used after init looks it up.)
InitMarkup ==
  \E root \in BOOLEAN, barEl \in BOOLEAN, percentEl \in BOOLEAN, h \in 1..MaxWin,
     top \in { None, Some(Nav(CustomLinks({"toc", "next"}, "#top"), TRUE, Some("false"),
                               TRUE, FALSE, FALSE)) } :
    Serve(BasePage, top, None, ProgressUI(root, barEl, percentEl), h,
          StoreWith(BasePage, None), "ok")

SpecMarkup == InitMarkup /\ [][Next]_vars

\* ------------------------------------------------------------ page reloads

\* The chapter page is loaded again: the document is served as before, the
\* script starts afresh, the store is what the last session left.
Reload ==
  /\ pc \in {"ready", "failed", "left"}
  /\ session.loads <= MaxReloads
  /\ topNav' = atLoad.top
  /\ bottomNav' = atLoad.bottom
  /\ progressRoot' = atLoad.ui.root
  /\ bar' = atLoad.ui.bar
  /\ percent' = atLoad.ui.percent
  /\ scrollY' = 0
  /\ pc' = "loading"
  /\ chapterIndex' = None
  /\ storageKey' = ""
  /\ ticking' = FALSE
  /\ rafPending' = 0
  /\ listeners' = {}
  /\ api' = FALSE
  /\ location' = SelfHref
  /\ uncaught' = FALSE
  /\ fresh' = FALSE
  /\ atLoad' = [atLoad EXCEPT !.saved = getItem(store, storageKeyOf(page)),
                              !.store = store, !.windowH = windowH]
  /\ burst' = 0
  /\ frameBurst' = 0
  /\ frameRecomputes' = 0
  /\ scrollToCalls' = << >>
  /\ toggleLog' = [w \in {"top", "bottom"} |-> << >>]
  /\ session' = [loads |-> session.loads + 1, read |-> None, wrote |-> None,
                 before |-> session.wrote]
  /\ UNCHANGED << page, windowH, store, storageMode, tocVars >>

\* A scrollable chapter page, with nothing stored for it or with a value.
InitReload ==
  \E h \in 1..MaxWin, saved \in { None, Some("0.25") }, mode \in {"ok", "disabled"},
     top \in { None, Some(Nav(CustomLinks({"toc", "next"}, "#top"), TRUE, Some("false"),
                               TRUE, FALSE, FALSE)) } :
    Serve(BasePage, top, None, ProgressUI(FALSE, FALSE, FALSE), h,
          StoreWith(BasePage, saved), mode)

NextReload ==
  \/ Next
  \/ Reload

SpecReload == InitReload /\ [][NextReload]_vars

\* ------------------------------------------- table of contents: functions

TickMs == 70
debounceWait == 140

UpperCase == "ABCDEFGHIJKLMNOPQRSTUVWXYZ"
LowerCase == "abcdefghijklmnopqrstuvwxyz"

\* One character of String.prototype.toLowerCase, for the Latin letters.
LowerOf ==
  [ c \in { CharAt(UpperCase, i) : i \in 1..Len(UpperCase) } |->
      CharAt(LowerCase, CHOOSE i \in 1..Len(UpperCase) : CharAt(UpperCase, i) = c) ]
lowerChar(c) == IF c \in DOMAIN LowerOf THEN LowerOf[c] ELSE c

RECURSIVE toLowerCase(_)
toLowerCase(s) ==
  IF s = "" THEN "" ELSE lowerChar(CharAt(s, 1)) \o toLowerCase(SubSeq(s, 2, Len(s)))

\* String.prototype.trim: white space off both ends.
RECURSIVE trimStart(_)
trimStart(s) ==
  IF s # "" /\ IsSpace(CharAt(s, 1)) THEN trimStart(SubSeq(s, 2, Len(s))) ELSE s
RECURSIVE trimEnd(_)
trimEnd(s) ==
  IF s # "" /\ IsSpace(CharAt(s, Len(s))) THEN trimEnd(SubSeq(s, 1, Len(s) - 1)) ELSE s
trim(s) == trimEnd(trimStart(s))

\* The key of the last-opened ordinal.
LastReadKey == "act1-last-read"

removeItem(st, key) == [k \in DOMAIN st \ {key} |-> st[k]]

\* parseInt(x, 10) || 0 and the like: the integer, 0 for NaN.
intOrZero(x) == IF x.kind = "fin" THEN x.num ELSE 0

\* parseInt(a.dataset.index, 10) || 0
cardIndex(card) ==
  IF IsSome(card.index) THEN intOrZero(parseInt(Get(card.index))) ELSE 0

\* items.find(a => cardIndex(a) === index): its position, 0 when none.
findCard(cards, index) ==
  IF \E i \in 1..Len(cards) : cardIndex(cards[i]) = index
  THEN CHOOSE i \in 1..Len(cards) :
         /\ cardIndex(cards[i]) = index
         /\ \A j \in 1..(i - 1) : cardIndex(cards[j]) # index
  ELSE 0

\* setProgress(index) in the store st: `if (!index) return`, then the write
\* (which throws in a store that takes none), the progress value and the
\* data-last marks.
setProgress(index, st, mode, value, marks) ==
  IF index = 0
  THEN [store |-> st, value |-> value, marks |-> marks, threw |-> FALSE]
  ELSE IF mode # "ok"
  THEN [store |-> st, value |-> value, marks |-> marks, threw |-> TRUE]
  ELSE [ store |-> setItem(st, LastReadKey, ToString(index)),
         value |-> Min(Len(tocPage.cards), index),
         marks |-> [i \in 1..Len(tocPage.cards) |-> i = findCard(tocPage.cards, index)],
         threw |-> FALSE ]

\* updateCount(visible)
updateCount(visible) ==
  ToString(visible) \o (IF visible = 1 THEN " chapter" ELSE " chapters")

\* (a.dataset.title || a.textContent || '').toLowerCase()
cardTitle(card) == toLowerCase(IF card.title # "" THEN card.title ELSE card.text)
\* (a.querySelector('.toc-card__label')?.textContent || '').toLowerCase()
cardLabel(card) == toLowerCase(IF IsSome(card.label) THEN Get(card.label) ELSE "")
\* (a.dataset.chapter || '').toLowerCase()
cardChapter(card) == toLowerCase(card.chapter)

\* filter's test of one card against term.
matches_titleOnly(term, card) ==
  term = "" \/ Contains(cardTitle(card), term)
matches(term, card) ==
  \/ term = ""
  \/ Contains(cardTitle(card), term)
  \/ Contains(cardLabel(card), term)
  \/ Contains(cardChapter(card), term)

\* filter's term for the argument q.
filterTermOf(q) == toLowerCase(trim(q))

\* filter(q): which cards it hides.
filterHidden(q) ==
  [i \in 1..Len(tocPage.cards) |-> ~matches(filterTermOf(q), tocPage.cards[i])]

\* The number of cards shown under the display flags h.
visibleCount(h) == Cardinality({ i \in 1..Len(h) : ~h[i] })

\* debounce(fn, wait): the timeouts pending after a call with value v.
debounce_noClear(pending, v) == pending \cup { [val |-> v, left |-> debounceWait] }
debounce(pending, v) == { [val |-> v, left |-> debounceWait] }

\* JavaScript's a % n for n > 0: the sign of a.
jsRem(a, n) == IF a >= 0 THEN a % n ELSE 0 - ((0 - a) % n)

\* The keydown listener's new focusedIndex among n visible cards.
arrowIndex_bounce(key, f, n) ==
  IF key \in {"ArrowDown", "ArrowRight"}
  THEN (IF f + 1 >= n THEN Max(n - 2, 0) ELSE f + 1)
  ELSE (IF f - 1 < 0 THEN Min(1, n - 1) ELSE Min(f - 1, n - 1))
arrowIndex(key, f, n) ==
  IF key \in {"ArrowDown", "ArrowRight"} THEN jsRem(f + 1, n)
  ELSE jsRem(f - 1 + n, n)

\* items.filter(a => a.parentElement && a.parentElement.style.display !== 'none'):
\* the positions of the visible cards, in order.
RECURSIVE visibleFrom(_, _)
visibleFrom(h, i) ==
  IF i > Len(h) THEN << >>
  ELSE (IF h[i] THEN << >> ELSE << i >>) \o visibleFrom(h, i + 1)
visibleItems == visibleFrom(hidden, 1)

\* -------------------------------------------- table of contents: handlers

\* Every element init needs is there.
tocComplete ==
  tocPage.grid /\ tocPage.countEl /\ tocPage.progress /\ tocPage.yearEl

\* The listeners init adds.
tocWired ==
  {"click", "arrows"}
    \cup (IF tocPage.search THEN {"input", "slash"} ELSE {})
    \cup (IF tocPage.clearBtn THEN {"clear"} ELSE {})

\* init() from the listeners on.
tocFinish ==
  /\ tocListeners' = tocWired
  /\ countText' = updateCount(Len(tocPage.cards))
  /\ tocApi' = TRUE
  /\ tocPc' = "ready"

\* init() from the restore of the last-read mark on, the store having
\* given saved; r is the outcome of setProgress(saved), if it was called.
tocRestore(saved, r) ==
  IF saved.kind = "fin"
  THEN /\ store' = r.store
       /\ progressValue' = r.value
       /\ dataLast' = r.marks
       /\ uncaught' = r.threw
       /\ IF r.threw
          THEN /\ tocPc' = "failed"
               /\ UNCHANGED << tocListeners, countText, tocApi >>
          ELSE tocFinish
  ELSE /\ UNCHANGED << store, progressValue, dataLast, uncaught >>
       /\ tocFinish

\* parseInt(localStorage.getItem('act1-last-read'), 10)
savedIndex(st) ==
  IF IsSome(getItem(st, LastReadKey)) THEN parseInt(Get(getItem(st, LastReadKey)))
  ELSE JsNaN

\* init() of the table of contents page.
tocInit ==
  /\ tocPc = "loading"
  /\ IF ~tocComplete
     THEN /\ tocPc' = "noop"
          /\ UNCHANGED << store, progressValue, dataLast, uncaught, tocListeners,
                          countText, tocApi, yearShown >>
     ELSE /\ yearShown' = TRUE
          /\ IF storageMode = "disabled"
             THEN /\ uncaught' = TRUE
                  /\ tocPc' = "failed"
                  /\ UNCHANGED << store, progressValue, dataLast, tocListeners,
                                  countText, tocApi >>
             ELSE tocRestore(savedIndex(store),
                             setProgress(intOrZero(savedIndex(store)), store, storageMode,
                                         progressValue, dataLast))
  /\ UNCHANGED << readerVars, storageMode, tocPage, hidden, focusedIndex, focusCard,
                  activeTag, searchValue, timers, quiet, runs, filterTerm, lastClick,
                  arrowStable >>

\* The search terms typed.
SearchTerms == { "", "ash", " BONE ", "1", "zz" }

\* The user puts the focus into the search box.
FocusSearch ==
  /\ tocPc = "ready"
  /\ tocPage.search
  /\ activeTag # "INPUT"
  /\ activeTag' = "INPUT"
  /\ focusCard' = 0
  /\ arrowStable' = FALSE
  /\ UNCHANGED << readerVars, store, storageMode, uncaught, tocPage, tocPc, hidden,
                  dataLast, progressValue, countText, yearShown, focusedIndex,
                  searchValue, timers, tocListeners, tocApi, quiet, runs, filterTerm,
                  lastClick >>

\* The focus goes back to the body.
Blur ==
  /\ tocPc = "ready"
  /\ activeTag # "BODY"
  /\ activeTag' = "BODY"
  /\ focusCard' = 0
  /\ arrowStable' = FALSE
  /\ UNCHANGED << readerVars, store, storageMode, uncaught, tocPage, tocPc, hidden,
                  dataLast, progressValue, countText, yearShown, focusedIndex,
                  searchValue, timers, tocListeners, tocApi, quiet, runs, filterTerm,
                  lastClick >>

\* The search box takes the value v: an input event.
Input(v) ==
  /\ tocPc = "ready"
  /\ "input" \in tocListeners
  /\ activeTag = "INPUT"
  /\ v \in SearchTerms
  /\ v # searchValue
  /\ searchValue' = v
  /\ timers' = debounce(timers, v)
  /\ Cardinality(timers') <= MaxTimers
  /\ quiet' = 0
  /\ runs' = 0
  /\ UNCHANGED << readerVars, store, storageMode, uncaught, tocPage, tocPc, hidden,
                  dataLast, progressValue, countText, yearShown, focusedIndex,
                  focusCard, activeTag, tocListeners, tocApi, filterTerm, lastClick,
                  arrowStable >>

\* Time passes, up to the next timeout that is due.
Tick ==
  /\ tocPc = "ready"
  /\ timers # {} \/ quiet < debounceWait
  /\ \A t \in timers : t.left > 0
  /\ timers' = { [t EXCEPT !.left = Max(0, @ - TickMs)] : t \in timers }
  /\ quiet' = Min(quiet + TickMs, debounceWait)
  /\ UNCHANGED << readerVars, store, storageMode, uncaught, tocPage, tocPc, hidden,
                  dataLast, progressValue, countText, yearShown, focusedIndex,
                  focusCard, activeTag, searchValue, tocListeners, tocApi, runs,
                  filterTerm, lastClick, arrowStable >>

\* A timeout of debounce is due: filter(val) runs.
TimerFire ==
  /\ tocPc = "ready"
  /\ \E t \in timers :
       /\ t.left = 0
       /\ timers' = timers \ {t}
       /\ hidden' = filterHidden(t.val)
       /\ countText' = updateCount(visibleCount(filterHidden(t.val)))
       /\ filterTerm' = Some(t.val)
  /\ runs' = Min(runs + 1, MaxTimers)
  /\ arrowStable' = FALSE
  /\ UNCHANGED << readerVars, store, storageMode, uncaught, tocPage, tocPc, dataLast,
                  progressValue, yearShown, focusedIndex, focusCard, activeTag,
                  searchValue, tocListeners, tocApi, quiet, lastClick >>

\* A click on the visible card i: setProgress(cardIndex) with outcome r; the
\* card takes the focus.
cardClicked(i, r) ==
  /\ store' = r.store
  /\ progressValue' = r.value
  /\ dataLast' = r.marks
  /\ uncaught' = (uncaught \/ r.threw)
  /\ lastClick' = [kind |-> "card", card |-> i]
  /\ activeTag' = "A"
  /\ focusCard' = i
  /\ arrowStable' = FALSE

CardClick(i) ==
  /\ tocPc = "ready"
  /\ i \in 1..Len(tocPage.cards)
  /\ ~hidden[i]
  /\ cardClicked(i, setProgress(cardIndex(tocPage.cards[i]), store, storageMode,
                                progressValue, dataLast))
  /\ UNCHANGED << readerVars, storageMode, tocPage, tocPc, hidden, countText,
                  yearShown, focusedIndex, searchValue, timers, tocListeners, tocApi,
                  quiet, runs, filterTerm >>

\* A click on the clear-progress button.
ClearClick ==
  /\ tocPc = "ready"
  /\ "clear" \in tocListeners
  /\ IF storageMode = "disabled"
     THEN /\ uncaught' = TRUE
          /\ UNCHANGED << store, progressValue, dataLast >>
     ELSE /\ store' = removeItem(store, LastReadKey)
          /\ progressValue' = 0
          /\ dataLast' = [i \in 1..Len(tocPage.cards) |-> FALSE]
          /\ UNCHANGED uncaught
  /\ lastClick' = [kind |-> "clear", card |-> 0]
  /\ activeTag' = "BUTTON"
  /\ focusCard' = 0
  /\ arrowStable' = FALSE
  /\ UNCHANGED << readerVars, storageMode, tocPage, tocPc, hidden, countText,
                  yearShown, focusedIndex, searchValue, timers, tocListeners, tocApi,
                  quiet, runs, filterTerm >>

TocKeys == { "ArrowDown", "ArrowRight", "ArrowUp", "ArrowLeft", "/", "a" }
ArrowKeys == { "ArrowDown", "ArrowRight", "ArrowUp", "ArrowLeft" }

\* The first keydown listener: '/' moves the focus to the search box.
slashFocuses(key) ==
  "slash" \in tocListeners /\ key = "/" /\ activeTag # "INPUT"

\* The second keydown listener, with the focus on an element named tag.
arrowMoves(key, tag) ==
  /\ "arrows" \in tocListeners
  /\ tag \notin {"INPUT", "TEXTAREA"}
  /\ Len(visibleItems) > 0
  /\ key \in ArrowKeys

\* A key is pressed.
TocKeyDown(key) ==
  /\ tocPc = "ready"
  /\ key \in TocKeys
  /\ IF slashFocuses(key)
     THEN /\ activeTag' = "INPUT"
          /\ focusCard' = 0
          /\ arrowStable' = FALSE
          /\ UNCHANGED focusedIndex
     ELSE IF arrowMoves(key, activeTag)
     THEN /\ focusedIndex' = arrowIndex(key, focusedIndex, Len(visibleItems))
          /\ focusCard' = visibleItems[focusedIndex' + 1]
          /\ activeTag' = "A"
          /\ arrowStable' = TRUE
     ELSE UNCHANGED << focusedIndex, focusCard, activeTag, arrowStable >>
  /\ UNCHANGED << readerVars, store, storageMode, uncaught, tocPage, tocPc, hidden,
                  dataLast, progressValue, countText, yearShown, searchValue, timers,
                  tocListeners, tocApi, quiet, runs, filterTerm, lastClick >>

\* The state of the table of contents page when its script starts.
TocFresh(cards) ==
  /\ tocPc = "loading"
  /\ hidden = [i \in 1..Len(cards) |-> FALSE]
  /\ dataLast = [i \in 1..Len(cards) |-> FALSE]
  /\ progressValue = 0
  /\ countText = ""
  /\ yearShown = FALSE
  /\ focusedIndex = -1
  /\ focusCard = 0
  /\ activeTag = "BODY"
  /\ searchValue = ""
  /\ timers = {}
  /\ tocListeners = {}
  /\ tocApi = FALSE
  /\ quiet = debounceWait
  /\ runs = 0
  /\ filterTerm = None
  /\ lastClick = [kind |-> "none", card |-> 0]
  /\ arrowStable = FALSE

\* The table of contents page is loaded again; the store is kept.
TocReload ==
  /\ tocPc \in {"ready", "failed"}
  /\ tocPc' = "loading"
  /\ hidden' = [i \in 1..Len(tocPage.cards) |-> FALSE]
  /\ dataLast' = [i \in 1..Len(tocPage.cards) |-> FALSE]
  /\ progressValue' = 0
  /\ countText' = ""
  /\ yearShown' = FALSE
  /\ focusedIndex' = -1
  /\ focusCard' = 0
  /\ activeTag' = "BODY"
  /\ searchValue' = ""
  /\ timers' = {}
  /\ tocListeners' = {}
  /\ tocApi' = FALSE
  /\ quiet' = debounceWait
  /\ runs' = 0
  /\ filterTerm' = None
  /\ lastClick' = [kind |-> "none", card |-> 0]
  /\ arrowStable' = FALSE
  /\ uncaught' = FALSE
  /\ UNCHANGED << readerVars, store, storageMode, tocPage >>

\* No chapter page is loaded.
ReaderIdle ==
  /\ page = [ShortPage EXCEPT !.article = FALSE]
  /\ topNav = None
  /\ bottomNav = None
  /\ progressRoot = FALSE
  /\ bar = [el |-> FALSE, text |-> ""]
  /\ percent = [el |-> FALSE, text |-> ""]
  /\ windowH = 1
  /\ scrollY = 0
  /\ pc = "absent"
  /\ chapterIndex = None
  /\ storageKey = ""
  /\ ticking = FALSE
  /\ rafPending = 0
  /\ listeners = {}
  /\ api = FALSE
  /\ location = SelfHref
  /\ fresh = FALSE
  /\ atLoad = [ saved |-> None, store |-> EmptyStore, windowH |-> 1, top |-> None,
                bottom |-> None, ui |-> ProgressUI(FALSE, FALSE, FALSE) ]
  /\ burst = 0
  /\ frameBurst = 0
  /\ frameRecomputes = 0
  /\ scrollToCalls = << >>
  /\ toggleLog = [w \in {"top", "bottom"} |-> << >>]
  /\ session = [loads |-> 0, read |-> None, wrote |-> None, before |-> None]

\* The cards of the table of contents: the prologue and two chapters.
TocCards ==
  << [index |-> Some("0"), title |-> "Prologue", text |-> "Prologue Start",
      label |-> Some("Start"), chapter |-> "prologue"],
     [index |-> Some("1"), title |-> "", text |-> "Ash Road", label |-> None,
      chapter |-> "ch-1"],
     [index |-> Some("2"), title |-> "Bone Orchard", text |-> "Bone Orchard Ash",
      label |-> Some("Ash"), chapter |-> "ch-2"] >>

\* The whole page, and pages that lack one of its elements.
FullTocPage ==
  [ search |-> TRUE, grid |-> TRUE, countEl |-> TRUE, progress |-> TRUE,
    clearBtn |-> TRUE, yearEl |-> TRUE, cards |-> TocCards ]
TocPages ==
  { FullTocPage,
    [FullTocPage EXCEPT !.search = FALSE],
    [FullTocPage EXCEPT !.clearBtn = FALSE],
    [FullTocPage EXCEPT !.yearEl = FALSE] }

\* What the store may hold as the last-opened ordinal.
LastReadValues == { None, Some("2"), Some("0"), Some("7"), Some("abc") }

\* A store holding a chapter's scroll progress and, when saved is not null,
\* saved as the last-opened ordinal.
TocStoreWith(saved) ==
  IF IsSome(saved) THEN setItem(setItem(EmptyStore, OtherKey, OtherValue), LastReadKey, Get(saved))
  ELSE setItem(EmptyStore, OtherKey, OtherValue)

TocLoad(tp, st, mode) ==
  /\ ReaderIdle
  /\ tocPage = tp
  /\ TocFresh(tp.cards)
  /\ store = st
  /\ storageMode = mode
  /\ uncaught = FALSE

TocInit ==
  \E tp \in TocPages, saved \in LastReadValues, mode \in StorageModes :
    /\ tp = FullTocPage \/ (saved = None /\ mode = "ok")
    /\ mode = "ok" \/ saved \in { None, Some("2") }
    /\ TocLoad(tp, TocStoreWith(saved), mode)

TocNext ==
  \/ tocInit
  \/ FocusSearch
  \/ Blur
  \/ \E v \in SearchTerms : Input(v)
  \/ Tick
  \/ TimerFire
  \/ \E i \in DOMAIN TocCards : CardClick(i)
  \/ ClearClick
  \/ \E key \in TocKeys : TocKeyDown(key)
  \/ TocReload

TocSpec == TocInit /\ [][TocNext]_vars

\* ------------------------------------------------------------------- claims

\* The height of the overlap of the article with the viewport, counted row
\* by row: the rows of the viewport that lie inside the article.
Overlap ==
  Cardinality({ r \in 0..(windowH - 1) :
                  page.artTop - scrollY <= r /\ r < page.artTop - scrollY + page.artHeight })

\* p is 100 * Overlap / height rounded to a nearest integer: no further
\* than a half from it.
IsRoundedPercent(p) ==
  /\ 2 * page.artHeight * p <= 200 * Overlap + page.artHeight
  /\ 200 * Overlap - page.artHeight <= 2 * page.artHeight * p

\* The number the string s denotes is p / 100.
DenotesHundredths(s, p) ==
  /\ parseFloat(s).kind = "fin"
  /\ parseFloat(s).num * 100 = p * parseFloat(s).den

\* C1: after every progress recomputation, whatever the geometry (zero
\* height included), the bar width and the label show an integer percentage
\* in 0..100.
C1_PercentInRange ==
  fresh => \E n \in 0..100 : /\ percent.text = ToString(n) \o "%"
                             /\ bar.text = ToString(n) \o "%"

\* C2: for a region of positive height, a recomputation leaves the bar width
\* and the label at p% and, in a store that accepts the write, this chapter's
\* entry at p/100, all for the one p that is 100 * overlap / height rounded.
C2_ProgressShown ==
  (fresh /\ page.artHeight > 0) =>
    \E n \in 0..100 :
      /\ IsRoundedPercent(n)
      /\ bar.text = ToString(n) \o "%"
      /\ percent.text = ToString(n) \o "%"
      /\ storageMode = "ok" =>
           /\ storageKey \in DOMAIN store
           /\ DenotesHundredths(store[storageKey], n)

\* C2's scenario: height 1000, viewport 500, top at 0 gives 50%, 50%, "0.5".
C2_Witness ==
  /\ fresh
  /\ page.artHeight = 1000 /\ windowH = 500 /\ page.artTop - scrollY = 0
  /\ bar.text = "50%" /\ percent.text = "50%"
  /\ store[storageKey] = "0.5"

\* The value init can read for this chapter, as a number; NaN when there is
\* none (no entry, an empty entry, or a store that cannot be read).
SavedNumber ==
  IF storageMode # "disabled" /\ IsSome(atLoad.saved)
  THEN parseFloat(Get(atLoad.saved)) ELSE JsNaN

\* The scrollable height when the page loaded.
ScrollableAtLoad == Max(page.contentH, atLoad.windowH) - atLoad.windowH

\* C3: once init has run, the viewport was scrolled exactly once, to
\* floor(v * scrollable height), when the persisted value v is a number with
\* 0 < v < 1, and was not scrolled at all in every other case.
C3_RestoreOnlyInside ==
  (pc \in {"ready", "failed", "left"}) =>
    IF SavedNumber.kind = "fin" /\ 0 < SavedNumber.num /\ SavedNumber.num < SavedNumber.den
    THEN scrollToCalls = << (ScrollableAtLoad * SavedNumber.num) \div SavedNumber.den >>
    ELSE scrollToCalls = << >>

\* C3's scenario: "0.5" stored, scroll height 2000, viewport 500: offset 750.
C3_Witness ==
  /\ pc = "ready"
  /\ atLoad.saved = Some("0.5") /\ page.contentH = 2000 /\ atLoad.windowH = 500
  /\ scrollToCalls = << 750 >>

\* The bars init has synthesized.
SynthesizedNavs ==
  { nav \in {topNav, bottomNav} : IsSome(nav) /\ Get(nav).injected }

\* The page for ordinal k.
PageFor(k) == "patreonchapter-" \o ToString(k) \o ".html"

\* C4: in a synthesized bar the previous slot is, for an ordinal n >= 2, a
\* link with role prev to the page for n - 1; for n <= 1 or no ordinal it is
\* a link to the table of contents and the bar has no link with role prev.
C4_PrevLink ==
  \A nav \in SynthesizedNavs :
    IF IsSome(chapterIndex) /\ Get(chapterIndex) >= 2
    THEN /\ Get(nav).links[1].role = "prev"
         /\ Get(nav).links[1].href = PageFor(Get(chapterIndex) - 1)
    ELSE /\ Get(nav).links[1].href = TocHref
         /\ \A i \in 1..Len(Get(nav).links) : Get(nav).links[i].role # "prev"

C4_Witness ==
  /\ IsSome(topNav) /\ Get(topNav).injected
  /\ chapterIndex = Some(3)
  /\ Get(topNav).links[1] = Anchor("patreonchapter-2.html", "Previous", "prev")

\* C5: in a synthesized bar the next slot is, for every ordinal n >= 0 (the
\* prologue being 0), a link with role next to the page for n + 1; only with
\* no ordinal at all is it the End of Act link to the table of contents.
C5_NextLink ==
  \A nav \in SynthesizedNavs :
    IF IsSome(chapterIndex) /\ Get(chapterIndex) >= 0
    THEN /\ Get(nav).links[3].role = "next"
         /\ Get(nav).links[3].href = PageFor(Get(chapterIndex) + 1)
    ELSE IsSome(chapterIndex) \/
         /\ Get(nav).links[3] = Anchor(TocHref, "End of Act", "")

\* The states of a toggle in which the attribute and the classes agree.
ToggleConsistent(st) ==
  \/ st = << Some("true"), TRUE, TRUE >>
  \/ st = << Some("false"), FALSE, FALSE >>

\* The bars whose toggle has been activated, and how often (at most 2 kept).
Clicked(which) == Len(toggleLog[which])

\* C6 as stated: from every initial state of a toggle, two activations
\* restore aria-expanded and both classes, and each activation flips the
\* expanded state.
C6_ToggleTwiceAnyState ==
  \A which \in {"top", "bottom"} :
    /\ Clicked(which) = 2 => toggleState(Get(navAt(which))) = toggleLog[which][1]
    /\ Clicked(which) >= 1 =>
         (Get(navAt(which)).aria = Some("true"))
           # (toggleLog[which][Clicked(which)][1] = Some("true"))

\* C6 as amended: two activations restore aria-expanded and both classes
\* when they agreed to begin with ('true' with both classes, 'false' with
\* neither); from every state, one activation flips the expanded state and
\* leaves the attribute and the classes in agreement.
C6_ToggleTwiceConsistent ==
  \A which \in {"top", "bottom"} :
    /\ (Clicked(which) = 2 /\ ToggleConsistent(toggleLog[which][1])) =>
         toggleState(Get(navAt(which))) = toggleLog[which][1]
    /\ Clicked(which) >= 1 =>
         /\ (Get(navAt(which)).aria = Some("true"))
              # (toggleLog[which][Clicked(which)][1] = Some("true"))
         /\ ToggleConsistent(toggleState(Get(navAt(which))))

C6_Witness ==
  /\ Clicked("top") = 2
  /\ toggleLog["top"][1] = << Some("false"), FALSE, FALSE >>
  /\ toggleLog["top"][2] = << Some("true"), TRUE, TRUE >>
  /\ toggleState(Get(topNav)) = << Some("false"), FALSE, FALSE >>

\* C7: at most one animation-frame callback is pending, one is pending as
\* soon as an event has arrived since the last frame, and a frame that
\* follows a burst of k >= 1 events runs exactly one recomputation (one that
\* follows none runs none).
C7_OnePerFrame ==
  /\ rafPending <= 1
  /\ burst >= 1 => rafPending = 1
  /\ frameRecomputes = IF frameBurst >= 1 THEN 1 ELSE 0

C7_Witness ==
  /\ frameBurst = 2
  /\ frameRecomputes = 1
  /\ rafPending = 0 /\ ~ticking

\* The first anchor of the bars, in document order, for the key k: role
\* next for n, role prev for p, a table-of-contents target for t.
KeyLinks(k) ==
  { i \in 1..Len(navLinks) :
      \/ k = "n" /\ navLinks[i].role = "next"
      \/ k = "p" /\ navLinks[i].role = "prev"
      \/ k = "t" /\ Contains(navLinks[i].href, "line1-patreonreader.html") }
KeyLink(k) == navLinks[CHOOSE i \in KeyLinks(k) : \A j \in KeyLinks(k) : i <= j]

\* What the claim lets the key k on an element named t do.
KeyEffect(k, t) ==
  /\ IF t \notin {"INPUT", "TEXTAREA", "SELECT"} /\ KeyLinks(k) # {}
     THEN location' = KeyLink(k).href
     ELSE location' = location
  /\ uncaught' = uncaught

\* C8: a key press changes the location only for n, p or t, outside input,
\* textarea and select, when the link it stands for exists, and then to that
\* link's target; every other key press leaves the location as it is and
\* raises nothing.
C8_KeysNavigate ==
  [][\A k \in Keys, t \in Tags : KeyDown(k, t) => KeyEffect(k, t)]_vars

C8_Witness ==
  /\ pc = "left"
  /\ page.dataType = Some("comments")
  /\ ~IsSome(topNav)
  /\ location = "patreonchapter-3.html#bottom"

\* The identity of the chapter on page p: its ordinal (0 being the
\* prologue), else the prologue flag, else the element's id.
ChapterIdentity(p) ==
  IF dataNumberOf(p).kind # "nan" /\ dataNumberOf(p).num # 0
  THEN << "ordinal", ToString(dataNumberOf(p).num) >>
  ELSE IF dataNumberOf(p).kind # "nan" \/ isPrologue(p) THEN << "prologue", "" >>
  ELSE << "id", p.id >>

\* The chapter pages the site may serve.
ChapterPages ==
  { [page EXCEPT !.dataNumber = n, !.dataType = ty, !.id = id] :
      n \in DataNumbers, ty \in DataTypes, id \in ArticleIds }

\* C9: no chapter page of another identity gets this page's storage key.
C9_KeysDistinct ==
  (pc = "ready") =>
    \A q \in ChapterPages :
      ChapterIdentity(q) # ChapterIdentity(page) => storageKeyOf(q) # storageKey

\* C10: with a store that throws on every read and write, init runs to its
\* end (all three listeners, the accessor), nothing escapes, every
\* recomputation shows the rounded percentage in the bar and the label, and
\* the store is left as it was.
C10_StorageFailureIgnored ==
  (storageMode = "disabled" /\ page.article /\ pc # "loading") =>
    /\ pc \in {"ready", "left"}
    /\ listeners = {"scroll", "resize", "keydown"}
    /\ api
    /\ ~uncaught
    /\ store = atLoad.store
    /\ (fresh /\ page.artHeight > 0) =>
         \E n \in 0..100 : /\ IsRoundedPercent(n)
                           /\ bar.text = ToString(n) \o "%"
                           /\ percent.text = ToString(n) \o "%"

C10_Witness ==
  /\ storageMode = "disabled"
  /\ pc = "ready" /\ api
  /\ frameRecomputes = 1 /\ fresh
  /\ bar.text = "67%" /\ percent.text = "67%"

\* What init did to the bar served as `served`: left it as it was (wired or
\* not), or put one of its own in its place.
NavKept(nav, served) ==
  /\ IsSome(nav) = IsSome(served)
  /\ IsSome(nav) => ~Get(nav).injected /\ Get(nav).links = Get(served).links
NavSynthesized(nav) == IsSome(nav) /\ Get(nav).injected

\* Progress tracking is on: the initial recomputation has run and, in a
\* store that takes writes, left its value; scroll and resize are listened to.
TrackingActive ==
  /\ {"scroll", "resize"} \subseteq listeners
  /\ bar.text # "" /\ bar.text = percent.text
  /\ storageMode = "ok" => IsSome(session.wrote) /\ storageKey \in DOMAIN store

\* C12 as stated: on a comments page init synthesizes no bar and tracking
\* is on; on another page without a top bar it synthesizes both bars; with
\* a top bar it synthesizes none.
C12_BothBarsOrNone ==
  (pc = "ready") =>
    /\ TrackingActive
    /\ IF page.dataType # Some("comments") /\ ~IsSome(atLoad.top)
       THEN NavSynthesized(topNav) /\ NavSynthesized(bottomNav)
       ELSE NavKept(topNav, atLoad.top) /\ NavKept(bottomNav, atLoad.bottom)

\* C12 as amended: on a page that is not a comments page and has no top
\* bar, init synthesizes the top bar, and the bottom bar unless the page has
\* one, which it keeps; on every other page it synthesizes none; tracking is
\* on in every case.
C12_BarsWhereMissing ==
  (pc = "ready") =>
    /\ TrackingActive
    /\ IF page.dataType # Some("comments") /\ ~IsSome(atLoad.top)
       THEN /\ NavSynthesized(topNav)
            /\ IF IsSome(atLoad.bottom) THEN NavKept(bottomNav, atLoad.bottom)
               ELSE NavSynthesized(bottomNav)
       ELSE NavKept(topNav, atLoad.top) /\ NavKept(bottomNav, atLoad.bottom)

\* A comments page with a bottom bar only: nothing synthesized, progress shown.
C12_Witness ==
  /\ pc = "ready"
  /\ page.dataType = Some("comments")
  /\ ~IsSome(topNav) /\ IsSome(bottomNav) /\ ~Get(bottomNav).injected
  /\ fresh /\ bar.text = "100%"
  /\ storageKey \in DOMAIN store

\* C17: whatever of the progress elements the page serves, init ends with a
\* bar and a label in place, the initial recomputation and every later one
\* run without error, and the key shortcuts and the accessor are set up.
C17_ProgressUIEnsured ==
  (page.article /\ pc # "loading") =>
    /\ bar.el /\ percent.el
    /\ ~uncaught
    /\ "keydown" \in listeners
    /\ api

\* C18: the restore block reads what the store held when the page loaded,
\* before the initial recomputation writes; after a reload that is the value
\* the last recomputation of the session before wrote; and the store holds
\* what the latest recomputation wrote (a store that takes writes).
C18_ReadsLastWritten ==
  (pc \in {"ready", "left"} /\ storageMode = "ok") =>
    /\ session.read = atLoad.saved
    /\ session.loads >= 2 => IsSome(session.before) /\ session.read = session.before
    /\ IsSome(session.wrote) /\ getItem(store, storageKey) = session.wrote

\* After a reload at viewport height 2: the 50% the first session wrote is
\* read back and the viewport is moved to half of the scrollable height.
C18_Witness ==
  /\ pc = "ready"
  /\ session.loads = 2
  /\ atLoad.store # StoreWith(BasePage, None)
  /\ session.before = Some("0.5") /\ session.read = Some("0.5")
  /\ scrollToCalls = << 1 >>

\* C19: ticking is true exactly when an animation-frame callback is pending
\* (so that it is never left true with no callback to reset it).
C19_TickingIffPending ==
  ticking <=> rafPending > 0

\* C11: with a store that fails, the table of contents script still runs
\* init to its end (every listener wired, the count shown) and no handler
\* lets an exception escape.
C11_TocStorageFailureIgnored ==
  (storageMode # "ok" /\ tocPc \in {"ready", "failed"}) =>
    /\ tocPc = "ready"
    /\ tocListeners = tocWired
    /\ countText = updateCount(Len(tocPage.cards))
    /\ ~uncaught

\* The cards that carry the last-read mark.
Flagged == { i \in 1..Len(dataLast) : dataLast[i] }

\* C13: at most one card is flagged; after a click on a card (a store that
\* takes writes) its ordinal is the one stored and it is the one card
\* flagged, for the prologue's ordinal 0 as for any other; after a click on
\* clear-progress no card is flagged and nothing is stored.
C13_LastOpened ==
  /\ Cardinality(Flagged) <= 1
  /\ (lastClick.kind = "card" /\ storageMode = "ok") =>
       /\ getItem(store, LastReadKey)
            = Some(ToString(cardIndex(tocPage.cards[lastClick.card])))
       /\ Flagged = { lastClick.card }
  /\ (lastClick.kind = "clear" /\ storageMode = "ok") =>
       /\ Flagged = {}
       /\ LastReadKey \notin DOMAIN store

\* The searchable fields of a card: its title (data-title, the card's text
\* when it has none), its label and its chapter identifier.
CardFields(card) ==
  { IF card.title # "" THEN card.title ELSE card.text,
    IF IsSome(card.label) THEN Get(card.label) ELSE "",
    card.chapter }

\* The card is to be shown for the search term q.
ShownFor(q, card) ==
  \/ toLowerCase(trim(q)) = ""
  \/ \E f \in CardFields(card) : Contains(toLowerCase(f), toLowerCase(trim(q)))

\* C14: once the filter has run with q, a card is shown exactly when the
\* trimmed, lower-cased q is empty or occurs in its lower-cased title, label
\* or chapter identifier, and the count label is the number of cards shown,
\* with 'chapter' for exactly one and 'chapters' otherwise.
C14_FilterShows ==
  IsSome(filterTerm) =>
    /\ \A i \in 1..Len(tocPage.cards) :
         ~hidden[i] <=> ShownFor(Get(filterTerm), tocPage.cards[i])
    /\ countText =
         ToString(Cardinality({ i \in 1..Len(hidden) : ~hidden[i] }))
           \o (IF Cardinality({ i \in 1..Len(hidden) : ~hidden[i] }) = 1
               THEN " chapter" ELSE " chapters")

\* " BONE " shows the one card titled Bone Orchard.
C14_Witness ==
  /\ filterTerm = Some(" BONE ")
  /\ hidden = << TRUE, TRUE, FALSE >>
  /\ countText = "1 chapter"

\* The place of card c among the visible cards, counted from 0.
PlaceOf(c) == Cardinality({ j \in 1..(c - 1) : ~hidden[j] })
Shown == { i \in 1..Len(hidden) : ~hidden[i] }

\* What the claim lets the key do.
ArrowEffect(key) ==
  IF key \in ArrowKeys /\ activeTag \notin {"INPUT", "TEXTAREA"}
  THEN IF Shown = {}
       THEN UNCHANGED << focusCard, focusedIndex, activeTag >>
       ELSE /\ focusCard' \in Shown
            /\ focusedIndex' \in 0..(Cardinality(Shown) - 1)
            /\ arrowStable =>
                 PlaceOf(focusCard') =
                   IF key \in {"ArrowDown", "ArrowRight"}
                   THEN (PlaceOf(focusCard) + 1) % Cardinality(Shown)
                   ELSE (PlaceOf(focusCard) - 1 + Cardinality(Shown)) % Cardinality(Shown)
  ELSE key \in ArrowKeys => UNCHANGED << focusCard, focusedIndex, activeTag >>

\* C15: an arrow key pressed outside an input focuses a visible card at a
\* valid focus index; when the filter has not run since the last arrow key,
\* down/right is the next visible card (the first after the last) and
\* up/left the previous one (the last before the first); with no visible
\* card, or inside an input, it does nothing.
C15_ArrowKeys ==
  [][\A key \in TocKeys : TocKeyDown(key) => ArrowEffect(key)]_vars

\* Two cards shown, the focus moved by arrow keys onto the second of them.
C15_Witness ==
  /\ arrowStable
  /\ hidden = << TRUE, FALSE, FALSE >>
  /\ focusCard = 3 /\ focusedIndex = 1 /\ activeTag = "A"

\* C16: at most one timeout is pending, for the latest input and due no
\* sooner than the wait after it; the filter has not run since that input.
\* With none pending after an input, the filter has run exactly once since
\* the last input, no sooner than the wait after it and with its value, so
\* that the cards shown are those for the latest search term.
C16_Debounced ==
  /\ Cardinality(timers) <= 1
  /\ \A t \in timers :
       /\ t.val = searchValue
       /\ t.left + quiet >= debounceWait
       /\ runs = 0
  /\ (timers = {} /\ tocPc = "ready") =>
       \/ runs = 0 /\ filterTerm = None /\ searchValue = ""
       \/ /\ runs = 1
          /\ quiet >= debounceWait
          /\ filterTerm = Some(searchValue)
          /\ \A i \in 1..Len(tocPage.cards) :
               ~hidden[i] <=> ShownFor(searchValue, tocPage.cards[i])

\* After typing has ended on "zz" the one run of the filter hides every card.
C16_Witness ==
  /\ timers = {}
  /\ runs = 1
  /\ searchValue = "zz" /\ filterTerm = Some("zz")
  /\ hidden = << TRUE, TRUE, TRUE >>
  /\ countText = "0 chapters"

====
